---------------------------- MODULE Spec2Model ----------------------------
(***************************************************************************)
(* Model of the POCS observatory control core:                             *)
(*   - the pointing state's entry action  (pocs/state/states/default/      *)
(*     pointing.py, on_enter),                                             *)
(*   - the command broker relay loop      (panoptes/panoptes.py,           *)
(*     Panoptes.start_broker),                                             *)
(*   - the admin messaging connection and its two periodic monitors        *)
(*     (admin/web/handlers/messaging.py, MessagingConnection).             *)
(* Each part has its own specification over the shared variable tuple;     *)
(* the variables of the other parts stay at their initial values.          *)
(***************************************************************************)
EXTENDS Integers, Sequences, FiniteSets, TLC

VARIABLES
    \* ---- pointing.on_enter ----
    ppc,            \* position of on_enter
    inp,            \* the collaborators' behaviour during this invocation
    next_state,     \* pocs.next_state
    mountCmds,      \* commands received by pocs.observatory.mount, in order
    said,           \* number of pocs.say narrations delivered
    caught,         \* step whose exception the except clause caught ("none")
    \* ---- Panoptes.start_broker ----
    bpc,            \* position of the relay loop
    socks,          \* result of the last poller.poll()
    message,        \* the local variable `message`
    frontIn,        \* messages from clients readable on the frontend (ROUTER)
    backIn,         \* messages from the hardware readable on the backend (DEALER)
    fromClient,     \* history: messages read from the frontend
    fromHw,         \* history: messages read from the backend
    toHw,           \* history: messages written to the backend
    toClient,       \* history: messages written to the frontend
    peer,           \* a hardware peer is attached to the backend
    sentHist,       \* history: requests sent by clients
    repliedHist,    \* history: replies sent by the hardware
    \* ---- MessagingConnection ----
    wpc,            \* position of the admin process's IOLoop thread
    conn,           \* session lifecycle: "new", "open", "closed"
    connections,    \* self \in self.connections
    loops,          \* stats_loop / mount_status_loop: "unset", "running", "stopped"
    due,            \* per loop: its timeout has expired and its run is queued
    req,            \* state of the REQ socket: "ready" or "awaiting"
    hwUp,           \* replies reach the REQ socket
    statusRaw,      \* bytes of the last get_status reply
    status_response,\* local of _send_mount_status
    coords_response,\* local of _send_mount_status
    published,      \* number of Messages sent to the web client, per type
    lastMount,      \* the last 'mount_status' Message
    lastTick,       \* per loop: outcome of its last run
    mountErr,       \* exception that ended the last failed mount-status run
    closeErr,       \* exception raised by the last on_close ("none")
    nTicks,         \* number of timer expiries so far
    tickLog,        \* socket operations of the current mount-status run
    tickReplies,    \* bytes received during the current mount-status run
    tickPub,        \* Messages published by the current mount-status run
    inFlight,       \* per loop: number of its runs that are executing
    \* ---- Panoptes.__init__ / shutdown ----
    upc,            \* position of Panoptes.__init__
    ucfg,           \* configuration and environment of this construction
    ulog,           \* steps of __init__ completed so far, in order
    attrs,          \* attributes of self assigned so far
    web,            \* web_process: "none", "created", "running", "ended"
    monRunning,     \* environment monitors that are running
    uerr,           \* exception that ended __init__
    spc,            \* position of _sigint_handler / shutdown
    sigAt,          \* position of __init__ when the signal arrived ("none")
    shutdownErr,    \* exception raised by shutdown ("none")
    slog,           \* what shutdown has stopped and joined, in order
    exitStatus      \* status passed to sys.exit ({} while running)

pointingVars == <<ppc, inp, next_state, mountCmds, said, caught>>
brokerVars == <<bpc, socks, message, frontIn, backIn, fromClient, fromHw,
                toHw, toClient, peer, sentHist, repliedHist>>
adminVars == <<wpc, conn, connections, loops, due, req, hwUp, statusRaw,
               status_response, coords_response, published, lastMount,
               lastTick, mountErr, closeErr, nTicks, tickLog, tickReplies,
               tickPub, inFlight>>
tickVars == <<tickLog, tickReplies, tickPub>>
unitVars == <<upc, ucfg, ulog, attrs, web, monRunning, uerr, spc, sigAt,
              shutdownErr, slog, exitStatus>>
notPointing == <<brokerVars, adminVars, unitVars>>
notBroker == <<pointingVars, adminVars, unitVars>>
notAdmin == <<pointingVars, brokerVars, unitVars>>
notUnit == <<pointingVars, brokerVars, adminVars>>
vars == <<pointingVars, brokerVars, adminVars, unitVars>>

(***************************************************************************)
(*                      pointing.py : on_enter                             *)
(***************************************************************************)

\* Angular separations are counted in hundredths of the collaborator's unit.
MaxSep == 8

\* point_config.get('pointing_threshold', 0.05): the default, in hundredths.
DefaultThreshold == 5

\* The steps of on_enter at which a collaborator can raise.
Steps == {"say_start", "prepare", "take_exposure", "say_got", "cr2_to_fits",
          "solve_field", "say_sync", "set_target", "calibrate", "retarget",
          "slew"}

\* Values of config['pointing']: missing, present but empty (None), a mapping.
PointingCfgs == {"absent", "null", "mapping"}

\* Values of config['pointing']['pointing_threshold']: {} when the key is
\* missing, {t} when it is set to t hundredths.
Thresholds == {{}, {3}, {7}}

Fields == {"None", "F1", "F2"}
Solved == {"P1", "P2"}

Inputs == [cfg : PointingCfgs, threshold : Thresholds, fault : Steps \cup {"none"},
           field : Fields, pointing : Solved, separation : 0..MaxSep,
           has_field : BOOLEAN, handlerSayFails : BOOLEAN]

NoInput == [cfg |-> "absent", threshold |-> {}, fault |-> "none",
            field |-> "F1", pointing |-> "P1", separation |-> 0,
            has_field |-> TRUE, handlerSayFails |-> FALSE]

\* point_config = pocs.config.get('pointing', {}); a mapping carries the
\* configured threshold, {} carries none.
point_config(i) == IF i.cfg = "mapping" THEN i.threshold ELSE {}

\* point_config.get('pointing_threshold', 0.05)
pointing_threshold(i) ==
    IF point_config(i) = {} THEN DefaultThreshold
    ELSE CHOOSE t \in point_config(i) : TRUE

needs_correction_ge(i) == i.separation >= pointing_threshold(i)

\* separation > point_config.get('pointing_threshold', 0.05)
needs_correction(i) == i.separation > pointing_threshold(i)

sync_cmds_no_calibrate(i) == << <<"set_target_coordinates", i.pointing>> >>

\* mount.set_target_coordinates(pointing_image.pointing); serial_query('calibrate_mount')
sync_cmds(i) == << <<"set_target_coordinates", i.pointing>>,
                   <<"serial_query", "calibrate_mount">> >>

\* mount.set_target_coordinates(observation.field); mount.slew_to_target()
slew_back_cmds(i) == << <<"set_target_coordinates", i.field>>,
                        <<"slew_to_target", "-">> >>

\* The engine invokes the entry action; the collaborators' behaviour for this
\* invocation is fixed here.  next_state still names the state being entered.
Enter ==
    /\ ppc = "idle"
    /\ \E i \in Inputs :
          /\ i.cfg # "mapping" => i.threshold = {}
          /\ inp' = i
    /\ ppc' = "config"
    /\ next_state' = "pointing"
    /\ mountCmds' = <<>>
    /\ said' = 0
    /\ caught' = "none"
    /\ UNCHANGED notPointing

\* Lines 24-25, outside the try: a `pointing:` key with no value yields None
\* and None.get raises.
ReadConfig ==
    /\ ppc = "config"
    /\ ppc' = IF inp.cfg = "null" THEN "escaped" ELSE "preset"
    /\ UNCHANGED <<inp, next_state, mountCmds, said, caught>>
    /\ UNCHANGED notPointing

\* Line 27.
PresetFallback ==
    /\ ppc = "preset"
    /\ next_state' = "parking"
    /\ ppc' = "prepare"
    /\ UNCHANGED <<inp, mountCmds, said, caught>>
    /\ UNCHANGED notPointing

\* Lines 30-72: narration, then file name and headers; observation.field.field_name
\* raises when the observation has no field.
Prepare ==
    /\ ppc = "prepare"
    /\ IF inp.fault = "say_start"
         THEN /\ caught' = "say_start" /\ ppc' = "except" /\ said' = said
         ELSE IF inp.fault = "prepare" \/ inp.field = "None"
         THEN /\ caught' = "prepare" /\ ppc' = "except" /\ said' = said + 1
         ELSE /\ caught' = caught /\ ppc' = "expose" /\ said' = said + 1
    /\ UNCHANGED <<inp, next_state, mountCmds>>
    /\ UNCHANGED notPointing

\* Line 75.
TakeExposure ==
    /\ ppc = "expose"
    /\ IF inp.fault = "take_exposure"
         THEN caught' = "take_exposure" /\ ppc' = "except"
         ELSE caught' = caught /\ ppc' = "solve"
    /\ UNCHANGED <<inp, next_state, mountCmds, said>>
    /\ UNCHANGED notPointing

\* Lines 77-89.
ConvertAndSolve ==
    /\ ppc = "solve"
    /\ IF inp.fault = "say_got"
         THEN /\ caught' = "say_got" /\ ppc' = "except" /\ said' = said
         ELSE IF inp.fault \in {"cr2_to_fits", "solve_field"}
         THEN /\ caught' = inp.fault /\ ppc' = "except" /\ said' = said + 1
         ELSE /\ caught' = caught /\ ppc' = "compare" /\ said' = said + 1
    /\ UNCHANGED <<inp, next_state, mountCmds>>
    /\ UNCHANGED notPointing

\* Line 91.
CheckSeparation ==
    /\ ppc = "compare"
    /\ ppc' = IF needs_correction(inp) THEN "sync" ELSE "finish"
    /\ UNCHANGED <<inp, next_state, mountCmds, said, caught>>
    /\ UNCHANGED notPointing

\* Lines 92-98.
SyncMount ==
    /\ ppc = "sync"
    /\ IF inp.fault = "say_sync"
         THEN /\ caught' = "say_sync" /\ ppc' = "except"
              /\ said' = said /\ mountCmds' = mountCmds
         ELSE IF inp.fault = "set_target"
         THEN /\ caught' = "set_target" /\ ppc' = "except"
              /\ said' = said + 2 /\ mountCmds' = mountCmds
         ELSE IF inp.fault = "calibrate"
         THEN /\ caught' = "calibrate" /\ ppc' = "except"
              /\ said' = said + 2
              /\ mountCmds' = mountCmds \o SubSeq(sync_cmds(inp), 1, 1)
         ELSE /\ caught' = caught /\ ppc' = "slew_back"
              /\ said' = said + 2
              /\ mountCmds' = mountCmds \o sync_cmds(inp)
    /\ UNCHANGED <<inp, next_state>>
    /\ UNCHANGED notPointing

\* Lines 101-105.
SlewBack ==
    /\ ppc = "slew_back"
    /\ IF inp.has_field /\ inp.field # "None"
         THEN IF inp.fault = "retarget"
              THEN /\ caught' = "retarget" /\ ppc' = "except"
                   /\ mountCmds' = mountCmds
              ELSE IF inp.fault = "slew"
              THEN /\ caught' = "slew" /\ ppc' = "except"
                   /\ mountCmds' = mountCmds \o SubSeq(slew_back_cmds(inp), 1, 1)
              ELSE /\ caught' = caught /\ ppc' = "finish"
                   /\ mountCmds' = mountCmds \o slew_back_cmds(inp)
         ELSE /\ caught' = caught /\ ppc' = "finish"
              /\ mountCmds' = mountCmds
    /\ UNCHANGED <<inp, next_state, said>>
    /\ UNCHANGED notPointing

\* Lines 107-108: the handler narrates through the same channel; when that
\* call raises, the exception leaves on_enter.
HandleException ==
    /\ ppc = "except"
    /\ IF inp.handlerSayFails
         THEN ppc' = "escaped" /\ said' = said
         ELSE ppc' = "finish" /\ said' = said + 1
    /\ UNCHANGED <<inp, next_state, mountCmds, caught>>
    /\ UNCHANGED notPointing

\* Line 110.
SetTracking ==
    /\ ppc = "finish"
    /\ next_state' = "tracking"
    /\ ppc' = "returned"
    /\ UNCHANGED <<inp, mountCmds, said, caught>>
    /\ UNCHANGED notPointing

PointingStep ==
    \/ Enter
    \/ ReadConfig
    \/ PresetFallback
    \/ Prepare
    \/ TakeExposure
    \/ ConvertAndSolve
    \/ CheckSeparation
    \/ SyncMount
    \/ SlewBack
    \/ HandleException
    \/ SetTracking

InitPointing ==
    /\ ppc = "idle"
    /\ inp = NoInput
    /\ next_state = "ready"
    /\ mountCmds = <<>>
    /\ said = 0
    /\ caught = "none"

(***************************************************************************)
(*                  panoptes.py : Panoptes.start_broker                    *)
(***************************************************************************)

\* Number of client requests sent during one run of the broker.
MaxMsgs == 3

Clients == {"c1", "c2"}
Commands == {"get_status", "slew"}
Replies == {"ok", "err"}

\* A request as the ROUTER frontend delivers it: identity frame, the REQ
\* socket's empty delimiter frame, payload.
Frames(id, payload) == <<id, "", payload>>

recv_multipart_last(queue) == <<queue[Len(queue)], SubSeq(queue, 1, Len(queue) - 1)>>

\* socket.recv_multipart(): the oldest complete message and the rest of the queue.
recv_multipart(queue) == <<Head(queue), Tail(queue)>>

send_last_frame(written, msg) == Append(written, <<msg[Len(msg)]>>)

\* socket.send_multipart(message): every frame, unmodified.
send_multipart(written, msg) == Append(written, msg)

\* self.poller.poll(): blocks until a registered socket is readable and
\* returns every socket that is.
poll_result ==
    (IF frontIn # <<>> THEN {"frontend"} ELSE {})
        \cup (IF backIn # <<>> THEN {"backend"} ELSE {})

\* Line 99.
BrokerPoll ==
    /\ bpc = "poll"
    /\ poll_result # {}
    /\ socks' = poll_result
    /\ bpc' = "front"
    /\ UNCHANGED <<message, frontIn, backIn, fromClient, fromHw, toHw, toClient,
                   peer, sentHist, repliedHist>>
    /\ UNCHANGED notBroker

\* Lines 101-102.
FrontRecv ==
    /\ bpc = "front"
    /\ "frontend" \in socks
    /\ message' = recv_multipart(frontIn)[1]
    /\ frontIn' = recv_multipart(frontIn)[2]
    /\ fromClient' = Append(fromClient, message')
    /\ bpc' = "send_backend"
    /\ UNCHANGED <<socks, backIn, fromHw, toHw, toClient, peer, sentHist, repliedHist>>
    /\ UNCHANGED notBroker

\* Line 101, condition false.
FrontSkip ==
    /\ bpc = "front"
    /\ "frontend" \notin socks
    /\ bpc' = "back"
    /\ UNCHANGED <<socks, message, frontIn, backIn, fromClient, fromHw, toHw,
                   toClient, peer, sentHist, repliedHist>>
    /\ UNCHANGED notBroker

\* Line 103: a send on the DEALER backend blocks while no peer is attached.
BackendSend ==
    /\ bpc = "send_backend"
    /\ peer
    /\ toHw' = send_multipart(toHw, message)
    /\ bpc' = "back"
    /\ UNCHANGED <<socks, message, frontIn, backIn, fromClient, fromHw, toClient,
                   peer, sentHist, repliedHist>>
    /\ UNCHANGED notBroker

\* Lines 105-107: a send on the ROUTER frontend never blocks.
BackRelay ==
    /\ bpc = "back"
    /\ "backend" \in socks
    /\ message' = recv_multipart(backIn)[1]
    /\ backIn' = recv_multipart(backIn)[2]
    /\ fromHw' = Append(fromHw, message')
    /\ toClient' = send_multipart(toClient, message')
    /\ bpc' = "poll"
    /\ UNCHANGED <<socks, frontIn, fromClient, toHw, peer, sentHist, repliedHist>>
    /\ UNCHANGED notBroker

\* Line 105, condition false.
BackSkip ==
    /\ bpc = "back"
    /\ "backend" \notin socks
    /\ bpc' = "poll"
    /\ UNCHANGED <<socks, message, frontIn, backIn, fromClient, fromHw, toHw,
                   toClient, peer, sentHist, repliedHist>>
    /\ UNCHANGED notBroker

\* A client's REQ socket sends a request to the frontend.
ClientSend ==
    /\ Len(sentHist) < MaxMsgs
    /\ \E c \in Clients, p \in Commands :
          /\ frontIn' = Append(frontIn, Frames(c, p))
          /\ sentHist' = Append(sentHist, Frames(c, p))
    /\ UNCHANGED <<bpc, socks, message, backIn, fromClient, fromHw, toHw, toClient,
                   peer, repliedHist>>
    /\ UNCHANGED notBroker

\* The hardware command endpoint connects to the bound backend.
PeerAttach ==
    /\ ~peer
    /\ peer' = TRUE
    /\ UNCHANGED <<bpc, socks, message, frontIn, backIn, fromClient, fromHw, toHw,
                   toClient, sentHist, repliedHist>>
    /\ UNCHANGED notBroker

\* The hardware endpoint answers the oldest request it has not answered yet,
\* keeping the request's identity and delimiter frames.
HwReply ==
    /\ peer
    /\ Len(repliedHist) < Len(toHw)
    /\ \E r \in Replies :
          LET request == toHw[Len(repliedHist) + 1]
              rep == SubSeq(request, 1, Len(request) - 1) \o <<r>>
          IN /\ backIn' = Append(backIn, rep)
             /\ repliedHist' = Append(repliedHist, rep)
    /\ UNCHANGED <<bpc, socks, message, frontIn, fromClient, fromHw, toHw, toClient,
                   peer, sentHist>>
    /\ UNCHANGED notBroker

\* The steps of the relay loop itself.
start_broker ==
    \/ BrokerPoll
    \/ FrontRecv
    \/ FrontSkip
    \/ BackendSend
    \/ BackRelay
    \/ BackSkip

InitBroker ==
    /\ bpc = "poll"
    /\ socks = {}
    /\ message = <<>>
    /\ frontIn = <<>>
    /\ backIn = <<>>
    /\ fromClient = <<>>
    /\ fromHw = <<>>
    /\ toHw = <<>>
    /\ toClient = <<>>
    /\ peer = FALSE
    /\ sentHist = <<>>
    /\ repliedHist = <<>>

(***************************************************************************)
(*               messaging.py : MessagingConnection                        *)
(***************************************************************************)

\* Number of timer expiries of the two periodic callbacks during one run.
MaxTicks == 3

Monitors == {"stats", "mount"}

\* Bytes of the replies the REQ socket can receive: '#' (35), '0'..'9'
\* (48..57), 'x' (120) and a byte outside ASCII (255).
StatusReplies ==
    {<<35, 48 + d>> : d \in 0..9}
        \cup {<<>>, <<35>>, <<35, 120>>, <<35, 53, 49>>, <<35, 255>>}
CoordReplies == {<<49>>, <<50, 51>>, <<255>>}

Digits == <<"0", "1", "2", "3", "4", "5", "6", "7", "8", "9">>

IsAscii(bytes) == \A k \in 1..Len(bytes) : bytes[k] < 128

\* The character of an ASCII byte.
Chr(b) == IF b = 35 THEN "#"
          ELSE IF b = 120 THEN "x"
          ELSE Digits[b - 47]

\* bytes.decode('ascii'), defined on ASCII bytes.
decode(bytes) == [k \in 1..Len(bytes) |-> Chr(bytes[k])]

status_map_tracking_swapped ==
    [c \in {"0", "1", "2", "3", "4", "5", "6", "7"} |->
        CASE c = "0" -> "Stopped - Not at zero position"
          [] c = "1" -> "Tracking (PEC Disabled)"
          [] c = "2" -> "Slewing"
          [] c = "3" -> "Guiding"
          [] c = "4" -> "Meridian Flipping"
          [] c = "5" -> "Parked"
          [] c = "6" -> "Tracking"
          [] c = "7" -> "Home"]

\* Lines 133-142.
status_map ==
    [c \in {"0", "1", "2", "3", "4", "5", "6", "7"} |->
        CASE c = "0" -> "Stopped - Not at zero position"
          [] c = "1" -> "Tracking (PEC Disabled)"
          [] c = "2" -> "Slewing"
          [] c = "3" -> "Guiding"
          [] c = "4" -> "Meridian Flipping"
          [] c = "5" -> "Tracking"
          [] c = "6" -> "Parked"
          [] c = "7" -> "Home"]

\* status_map.get(status_response, 'No response from mount')
status_message(code) ==
    IF code \in DOMAIN status_map THEN status_map[code]
    ELSE "No response from mount"

mount_status_response_swapped(code, coords, altaz) ==
    [type |-> "mount_status", message |-> status_message(code), code |-> code,
     coords |-> altaz, coords_altaz |-> coords]

\* Lines 144-150.
mount_status_response(code, coords, altaz) ==
    [type |-> "mount_status", message |-> status_message(code), code |-> code,
     coords |-> coords, coords_altaz |-> altaz]

NoMessage == [type |-> "none", message |-> "", code |-> "", coords |-> <<>>,
              coords_altaz |-> <<>>]

on_close_stops_stats_only(l) == [l EXCEPT !["stats"] = "stopped"]

\* Lines 91-92: stats_loop.stop(); mount_status_loop.stop().
on_close_stops(l) == [m \in Monitors |-> "stopped"]

ioloop_reentrant == TRUE

\* The IOLoop runs one callback at a time on its thread: a handler or a
\* periodic run starts only when no other is executing.
ioloop_free == wpc = "idle"

\* The run of loop m is executing.
executing(m) ==
    IF m = "stats" THEN wpc = "find_one"
    ELSE wpc \in {"recv_status", "recv_coords", "recv_altaz"}

\* Lines 38-54.  The transport opens a session once.
on_open ==
    /\ ioloop_free
    /\ conn = "new"
    /\ conn' = "open"
    /\ connections' = TRUE
    /\ published' = [published EXCEPT !["greeting"] = @ + 1]
    /\ loops' = [m \in Monitors |-> "running"]
    /\ UNCHANGED <<wpc, due, req, hwUp, statusRaw, status_response,
                   coords_response, lastMount, lastTick, mountErr, closeErr, nTicks>>
    /\ UNCHANGED <<tickVars, inFlight>>
    /\ UNCHANGED notAdmin

\* Lines 88-92.  connections.remove(self) raises KeyError when self is not in
\* the set, before either loop is touched.
on_close ==
    /\ ioloop_free
    /\ IF connections
         THEN /\ connections' = FALSE
              /\ loops' = on_close_stops(loops)
              /\ conn' = "closed"
              /\ closeErr' = "none"
         ELSE /\ closeErr' = "KeyError"
              /\ UNCHANGED <<connections, loops, conn>>
    /\ UNCHANGED <<wpc, due, req, hwUp, statusRaw, status_response,
                   coords_response, published, lastMount, lastTick, mountErr, nTicks>>
    /\ UNCHANGED <<tickVars, inFlight>>
    /\ UNCHANGED notAdmin

\* PeriodicCallback (lines 50-54): the timeout of a running loop expires.  The
\* next timeout of a loop is scheduled when its run ends, so the timeout of a
\* loop cannot expire while its run is executing.
TimerExpires ==
    /\ nTicks < MaxTicks
    /\ \E m \in Monitors :
          /\ loops[m] = "running"
          /\ ~due[m]
          /\ ~executing(m)
          /\ due' = [due EXCEPT ![m] = TRUE]
    /\ nTicks' = nTicks + 1
    /\ UNCHANGED <<wpc, conn, connections, loops, req, hwUp, statusRaw,
                   status_response, coords_response, published, lastMount,
                   lastTick, mountErr, closeErr>>
    /\ UNCHANGED <<tickVars, inFlight>>
    /\ UNCHANGED notAdmin

\* A queued run of a loop that was stopped in the meantime does nothing.
RunStopped ==
    /\ ioloop_free
    /\ \E m \in Monitors :
          /\ due[m]
          /\ loops[m] # "running"
          /\ due' = [due EXCEPT ![m] = FALSE]
    /\ UNCHANGED <<wpc, conn, connections, loops, req, hwUp, statusRaw,
                   status_response, coords_response, published, lastMount,
                   lastTick, mountErr, closeErr, nTicks>>
    /\ UNCHANGED <<tickVars, inFlight>>
    /\ UNCHANGED notAdmin

\* Line 101: the run of stats_loop starts and waits for the document store.
send_stats ==
    /\ ioloop_free
    /\ due["stats"]
    /\ loops["stats"] = "running"
    /\ due' = [due EXCEPT !["stats"] = FALSE]
    /\ wpc' = "find_one"
    /\ inFlight' = [inFlight EXCEPT !["stats"] = @ + 1]
    /\ UNCHANGED <<conn, connections, loops, req, hwUp, statusRaw,
                   status_response, coords_response, published, lastMount,
                   lastTick, mountErr, closeErr, nTicks>>
    /\ UNCHANGED tickVars
    /\ UNCHANGED notAdmin

\* Lines 101-106.  find_one returns None when no current record exists and
\* None.get raises; the periodic callback logs the exception and goes on.
FindOneReturns ==
    /\ wpc = "find_one"
    /\ wpc' = "idle"
    /\ inFlight' = [inFlight EXCEPT !["stats"] = @ - 1]
    /\ \E data_raw \in {"None", "record"} :
          IF data_raw = "None"
          THEN /\ lastTick' = [lastTick EXCEPT !["stats"] = "failed"]
               /\ published' = published
          ELSE /\ lastTick' = [lastTick EXCEPT !["stats"] = "ok"]
               /\ published' = [published EXCEPT !["environment"] = @ + 1]
    /\ UNCHANGED <<conn, connections, loops, due, req, hwUp, statusRaw,
                   status_response, coords_response, lastMount, mountErr,
                   closeErr, nTicks>>
    /\ UNCHANGED tickVars
    /\ UNCHANGED notAdmin

\* Line 113.  A REQ socket that still awaits a reply refuses to send.
send_mount_status ==
    /\ ioloop_free
    /\ due["mount"]
    /\ loops["mount"] = "running"
    /\ due' = [due EXCEPT !["mount"] = FALSE]
    /\ tickReplies' = <<>>
    /\ tickPub' = 0
    /\ IF req = "awaiting"
         THEN /\ lastTick' = [lastTick EXCEPT !["mount"] = "failed"]
              /\ mountErr' = "EFSM"
              /\ tickLog' = <<>>
              /\ UNCHANGED <<wpc, req, inFlight>>
         ELSE /\ req' = "awaiting"
              /\ wpc' = "recv_status"
              /\ tickLog' = <<"send get_status">>
              /\ inFlight' = [inFlight EXCEPT !["mount"] = @ + 1]
              /\ UNCHANGED <<lastTick, mountErr>>
    /\ UNCHANGED <<conn, connections, loops, hwUp, statusRaw, status_response,
                   coords_response, published, lastMount, closeErr, nTicks>>
    /\ UNCHANGED notAdmin

\* A recv() that raises (interrupted call, terminated context): the run ends
\* and the socket still awaits its reply.
RecvRaises ==
    /\ wpc \in {"recv_status", "recv_coords", "recv_altaz"}
    /\ wpc' = "idle"
    /\ lastTick' = [lastTick EXCEPT !["mount"] = "failed"]
    /\ mountErr' = "ZMQError"
    /\ inFlight' = [inFlight EXCEPT !["mount"] = @ - 1]
    /\ UNCHANGED tickVars
    /\ UNCHANGED <<conn, connections, loops, due, req, hwUp, statusRaw,
                   status_response, coords_response, published, lastMount,
                   closeErr, nTicks>>
    /\ UNCHANGED notAdmin

\* Lines 117-120.
RecvStatus ==
    /\ wpc = "recv_status"
    /\ hwUp
    /\ \E reply \in StatusReplies :
          /\ statusRaw' = reply
          /\ tickReplies' = Append(tickReplies, reply)
          /\ IF ~IsAscii(reply) \/ Len(reply) < 2
               THEN /\ req' = "ready"
                    /\ wpc' = "idle"
                    /\ tickLog' = Append(tickLog, "recv")
                    /\ inFlight' = [inFlight EXCEPT !["mount"] = @ - 1]
                    /\ lastTick' = [lastTick EXCEPT !["mount"] = "failed"]
                    /\ mountErr' = IF ~IsAscii(reply) THEN "UnicodeDecodeError"
                                   ELSE "IndexError"
                    /\ UNCHANGED status_response
               ELSE /\ status_response' = decode(reply)[2]
                    /\ req' = "awaiting"
                    /\ wpc' = "recv_coords"
                    /\ tickLog' = tickLog \o <<"recv", "send current_coords">>
                    /\ UNCHANGED inFlight
                    /\ UNCHANGED <<lastTick, mountErr>>
    /\ UNCHANGED <<conn, connections, loops, due, hwUp, coords_response,
                   published, lastMount, closeErr, nTicks, tickPub>>
    /\ UNCHANGED notAdmin

\* Lines 124-127.
RecvCoords ==
    /\ wpc = "recv_coords"
    /\ hwUp
    /\ \E reply \in CoordReplies :
          /\ tickReplies' = Append(tickReplies, reply)
          /\ IF ~IsAscii(reply)
               THEN /\ req' = "ready"
                    /\ wpc' = "idle"
                    /\ lastTick' = [lastTick EXCEPT !["mount"] = "failed"]
                    /\ mountErr' = "UnicodeDecodeError"
                    /\ tickLog' = Append(tickLog, "recv")
                    /\ inFlight' = [inFlight EXCEPT !["mount"] = @ - 1]
                    /\ UNCHANGED coords_response
               ELSE /\ coords_response' = decode(reply)
                    /\ req' = "awaiting"
                    /\ wpc' = "recv_altaz"
                    /\ tickLog' = tickLog \o <<"recv", "send get_coordinates_altaz">>
                    /\ UNCHANGED <<lastTick, mountErr, inFlight>>
    /\ UNCHANGED <<conn, connections, loops, due, hwUp, statusRaw,
                   status_response, published, lastMount, closeErr, nTicks,
                   tickPub>>
    /\ UNCHANGED notAdmin

\* Lines 131-153.
RecvAltaz ==
    /\ wpc = "recv_altaz"
    /\ hwUp
    /\ req' = "ready"
    /\ wpc' = "idle"
    /\ tickLog' = Append(tickLog, "recv")
    /\ inFlight' = [inFlight EXCEPT !["mount"] = @ - 1]
    /\ \E reply \in CoordReplies :
          /\ tickReplies' = Append(tickReplies, reply)
          /\ IF ~IsAscii(reply)
               THEN /\ lastTick' = [lastTick EXCEPT !["mount"] = "failed"]
                    /\ mountErr' = "UnicodeDecodeError"
                    /\ UNCHANGED <<published, lastMount, tickPub>>
               ELSE /\ lastMount' = mount_status_response(status_response,
                                         coords_response, decode(reply))
                    /\ published' = [published EXCEPT !["mount_status"] = @ + 1]
                    /\ tickPub' = tickPub + 1
                    /\ lastTick' = [lastTick EXCEPT !["mount"] = "ok"]
                    /\ UNCHANGED mountErr
    /\ UNCHANGED <<conn, connections, loops, due, hwUp, statusRaw,
                   status_response, coords_response, closeErr, nTicks>>
    /\ UNCHANGED notAdmin

\* The path from the REQ socket through the broker to the mount comes up or
\* goes down.
HwToggle ==
    /\ hwUp' = ~hwUp
    /\ UNCHANGED <<wpc, conn, connections, loops, due, req, statusRaw,
                   status_response, coords_response, published, lastMount,
                   lastTick, mountErr, closeErr, nTicks>>
    /\ UNCHANGED <<tickVars, inFlight>>
    /\ UNCHANGED notAdmin

InitAdmin ==
    /\ wpc = "idle"
    /\ conn = "new"
    /\ connections = FALSE
    /\ loops = [m \in Monitors |-> "unset"]
    /\ due = [m \in Monitors |-> FALSE]
    /\ req = "ready"
    /\ hwUp = FALSE
    /\ statusRaw = <<>>
    /\ status_response = ""
    /\ coords_response = <<>>
    /\ published = [t \in {"greeting", "environment", "mount_status"} |-> 0]
    /\ lastMount = NoMessage
    /\ lastTick = [m \in Monitors |-> "none"]
    /\ mountErr = "none"
    /\ closeErr = "none"
    /\ nTicks = 0
    /\ tickLog = <<>>
    /\ tickReplies = <<>>
    /\ tickPub = 0
    /\ inFlight = [m \in Monitors |-> 0]

(***************************************************************************)
(*          panoptes.py : Panoptes.__init__, shutdown, _sigint_handler     *)
(***************************************************************************)

RequiredKeys == {"base_dir", "mount", "state_machine"}

\* The transition-table document: well formed, not there, not readable, or
\* not parseable as YAML.
TableFiles == {"valid", "missing", "unreadable", "malformed"}

EnvMonitors == {"camera_enclosure", "weather_station", "webcams"}

UnitConfigs == [keys : SUBSET RequiredKeys, connect : BOOLEAN,
                table : TableFiles, threadStop : BOOLEAN]

NoError == [type |-> "none", about |-> "none"]

init_steps_config_first ==
    <<"signal", "check_config", "broker", "jobs", "db", "web_process",
      "messaging", "monitors", "observatory", "state_table", "state_machine",
      "start_jobs", "connect">>

\* The statements of __init__, lines 39-87, in order.
init_steps ==
    <<"signal", "broker", "jobs", "check_config", "db", "web_process",
      "messaging", "monitors", "observatory", "state_table", "state_machine",
      "start_jobs", "connect">>

next_step(st) ==
    LET k == CHOOSE i \in 1..Len(init_steps) : init_steps[i] = st
    IN init_steps[k + 1]

\* The attributes of self a step assigns.
assigned(st) ==
    CASE st = "broker" -> {"context", "frontend", "backend", "poller"}
      [] st = "jobs" -> {"jobs"}
      [] st = "db" -> {"db"}
      [] st = "messaging" -> {"messaging"}
      [] st = "monitors" -> EnvMonitors
      [] st = "observatory" -> {"observatory"}
      [] st = "state_table" -> {"state_table"}
      [] st = "state_machine" -> {"state_machine"}
      [] OTHER -> {}

check_config_skips_state_machine(keys) ==
    IF "base_dir" \notin keys
    THEN [type |-> "InvalidConfig", about |-> "base_dir"]
    ELSE IF "mount" \notin keys
    THEN [type |-> "MountNotFound", about |-> "mount"]
    ELSE NoError

\* Lines 184-195: the first missing key decides the exception; `about` is the
\* key its message speaks of ('base_dir', 'Mount', 'State Table').
check_config(keys) ==
    IF "base_dir" \notin keys
    THEN [type |-> "InvalidConfig", about |-> "base_dir"]
    ELSE IF "mount" \notin keys
    THEN [type |-> "MountNotFound", about |-> "mount"]
    ELSE IF "state_machine" \notin keys
    THEN [type |-> "InvalidConfig", about |-> "state_machine"]
    ELSE NoError

\* Lines 197-213.  open() raises an OSError for a missing or unreadable file;
\* yaml.load raises a YAMLError for malformed content, which the bare except
\* catches, and '...{}'.format() without an argument then raises IndexError.
load_state_table(file) ==
    CASE file = "valid" -> NoError
      [] file \in {"missing", "unreadable"} ->
            [type |-> "InvalidConfig", about |-> "state_table"]
      [] file = "malformed" -> [type |-> "IndexError", about |-> "state_table"]

\* <monitor>.stop(): the monitor no longer runs; stopping one that is not
\* running changes nothing.
monitor_stop(running, m) == running \ {m}

\* The main thread executes __init__ unless the signal handler has taken over.
Constructing(st) == upc = st /\ spc = "idle"

\* Panoptes(connect_on_startup) is called.
Construct ==
    /\ upc = "new"
    /\ \E c \in UnitConfigs : ucfg' = c
    /\ upc' = init_steps[1]
    /\ UNCHANGED <<ulog, attrs, web, monRunning, uerr, spc, sigAt, shutdownErr,
                   slog, exitStatus>>
    /\ UNCHANGED notUnit

\* Line 39.
InstallHandler ==
    /\ Constructing("signal")
    /\ ulog' = Append(ulog, "signal")
    /\ upc' = next_step("signal")
    /\ UNCHANGED <<ucfg, attrs, web, monRunning, uerr, spc, sigAt, shutdownErr,
                   slog, exitStatus>>
    /\ UNCHANGED notUnit

\* Lines 42, 45, 57, 65, 68, 72, 79: statements that assign attributes.
InitStep ==
    /\ \E st \in {"broker", "jobs", "db", "messaging", "monitors",
                  "observatory", "state_machine"} :
          /\ Constructing(st)
          /\ ulog' = Append(ulog, st)
          /\ attrs' = attrs \cup assigned(st)
          /\ upc' = next_step(st)
    /\ UNCHANGED <<ucfg, web, monRunning, uerr, spc, sigAt, shutdownErr, slog,
                   exitStatus>>
    /\ UNCHANGED notUnit

\* Line 52.
CheckConfig ==
    /\ Constructing("check_config")
    /\ IF check_config(ucfg.keys) = NoError
         THEN /\ ulog' = Append(ulog, "check_config")
              /\ upc' = next_step("check_config")
              /\ UNCHANGED uerr
         ELSE /\ uerr' = check_config(ucfg.keys)
              /\ upc' = "failed"
              /\ UNCHANGED ulog
    /\ UNCHANGED <<ucfg, attrs, web, monRunning, spc, sigAt, shutdownErr, slog,
                   exitStatus>>
    /\ UNCHANGED notUnit

\* Lines 59-61: the process is created and appended to jobs, not started.
CreateWebProcess ==
    /\ Constructing("web_process")
    /\ web' = "created"
    /\ ulog' = Append(ulog, "web_process")
    /\ upc' = next_step("web_process")
    /\ UNCHANGED <<ucfg, attrs, monRunning, uerr, spc, sigAt, shutdownErr, slog,
                   exitStatus>>
    /\ UNCHANGED notUnit

\* Line 75.
LoadStateTable ==
    /\ Constructing("state_table")
    /\ IF load_state_table(ucfg.table) = NoError
         THEN /\ ulog' = Append(ulog, "state_table")
              /\ attrs' = attrs \cup assigned("state_table")
              /\ upc' = next_step("state_table")
              /\ UNCHANGED uerr
         ELSE /\ uerr' = load_state_table(ucfg.table)
              /\ upc' = "failed"
              /\ UNCHANGED <<ulog, attrs>>
    /\ UNCHANGED <<ucfg, web, monRunning, spc, sigAt, shutdownErr, slog,
                   exitStatus>>
    /\ UNCHANGED notUnit

\* Lines 82-83.
StartJobs ==
    /\ Constructing("start_jobs")
    /\ web' = "running"
    /\ ulog' = Append(ulog, "start_jobs")
    /\ upc' = next_step("start_jobs")
    /\ UNCHANGED <<ucfg, attrs, monRunning, uerr, spc, sigAt, shutdownErr, slog,
                   exitStatus>>
    /\ UNCHANGED notUnit

\* Line 85 with connect_on_startup false: __init__ returns.
FinishInit ==
    /\ Constructing("connect")
    /\ ~ucfg.connect
    /\ upc' = "constructed"
    /\ UNCHANGED <<ucfg, ulog, attrs, web, monRunning, uerr, spc, sigAt,
                   shutdownErr, slog, exitStatus>>
    /\ UNCHANGED notUnit

\* Lines 85-86 and 122-134.
StartMonitoring ==
    /\ Constructing("connect")
    /\ ucfg.connect
    /\ monRunning' = EnvMonitors
    /\ ulog' = Append(ulog, "start_monitoring")
    /\ upc' = "start_broker"
    /\ UNCHANGED <<ucfg, attrs, web, uerr, spc, sigAt, shutdownErr, slog,
                   exitStatus>>
    /\ UNCHANGED notUnit

\* Line 87: the relay loop is entered and never left.
EnterBroker ==
    /\ Constructing("start_broker")
    /\ ulog' = Append(ulog, "start_broker")
    /\ upc' = "relay"
    /\ UNCHANGED <<ucfg, attrs, web, monRunning, uerr, spc, sigAt, shutdownErr,
                   slog, exitStatus>>
    /\ UNCHANGED notUnit

\* Lines 247-254: SIGINT arrives once the handler is installed; the handler
\* runs on the main thread, in place of whatever that thread was doing.
SigInt ==
    /\ "signal" \in {ulog[k] : k \in 1..Len(ulog)}
    /\ upc # "failed"
    /\ spc = "idle"
    /\ spc' = "shutdown"
    /\ sigAt' = upc
    /\ UNCHANGED <<upc, ucfg, ulog, attrs, web, monRunning, uerr, shutdownErr,
                   slog, exitStatus>>
    /\ UNCHANGED notUnit

\* Line 143.
ShutdownStopWeather ==
    /\ spc = "shutdown"
    /\ IF "weather_station" \in attrs
         THEN /\ monRunning' = monitor_stop(monRunning, "weather_station")
              /\ slog' = Append(slog, "stop weather_station")
              /\ spc' = "join"
              /\ UNCHANGED shutdownErr
         ELSE /\ shutdownErr' = "AttributeError"
              /\ spc' = "raised"
              /\ UNCHANGED <<monRunning, slog>>
    /\ UNCHANGED <<upc, ucfg, ulog, attrs, web, uerr, sigAt, exitStatus>>
    /\ UNCHANGED notUnit

\* Lines 146-147.  join() of a process that was not started raises; join() of
\* a running process returns when that process ends.
ShutdownJoin ==
    /\ spc = "join"
    /\ web # "running"
    /\ IF web = "created"
         THEN /\ shutdownErr' = "AssertionError"
              /\ spc' = "raised"
              /\ UNCHANGED slog
         ELSE /\ slog' = IF web = "ended" THEN Append(slog, "join web_process")
                         ELSE slog
              /\ spc' = "threads"
              /\ UNCHANGED shutdownErr
    /\ UNCHANGED <<upc, ucfg, ulog, attrs, web, monRunning, uerr, sigAt,
                   exitStatus>>
    /\ UNCHANGED notUnit

\* Lines 150-153: every thread but the main one is sent stop(); the threads of
\* the monitors still running are the ones there are.
ShutdownThreads ==
    /\ spc = "threads"
    /\ IF monRunning = {}
         THEN /\ spc' = "exit"
              /\ UNCHANGED <<monRunning, slog, shutdownErr>>
         ELSE IF ucfg.threadStop
         THEN /\ monRunning' = {}
              /\ slog' = Append(slog, "stop threads")
              /\ spc' = "exit"
              /\ UNCHANGED shutdownErr
         ELSE /\ shutdownErr' = "AttributeError"
              /\ spc' = "raised"
              /\ UNCHANGED <<monRunning, slog>>
    /\ UNCHANGED <<upc, ucfg, ulog, attrs, web, uerr, sigAt, exitStatus>>
    /\ UNCHANGED notUnit

\* Line 255.
SysExit ==
    /\ spc = "exit"
    /\ spc' = "exited"
    /\ exitStatus' = {0}
    /\ UNCHANGED <<upc, ucfg, ulog, attrs, web, monRunning, uerr, sigAt,
                   shutdownErr, slog>>
    /\ UNCHANGED notUnit

\* Lines 239-245: the admin process runs its IOLoop until something outside
\* ends it.
WebExits ==
    /\ web = "running"
    /\ web' = "ended"
    /\ UNCHANGED <<upc, ucfg, ulog, attrs, monRunning, uerr, spc, sigAt,
                   shutdownErr, slog, exitStatus>>
    /\ UNCHANGED notUnit

\* What the main thread of the unit does.
MainThread ==
    \/ InstallHandler
    \/ InitStep
    \/ CheckConfig
    \/ CreateWebProcess
    \/ LoadStateTable
    \/ StartJobs
    \/ FinishInit
    \/ StartMonitoring
    \/ EnterBroker
    \/ ShutdownStopWeather
    \/ ShutdownJoin
    \/ ShutdownThreads
    \/ SysExit

InitUnit ==
    /\ upc = "new"
    /\ ucfg = [keys |-> RequiredKeys, connect |-> FALSE, table |-> "valid",
               threadStop |-> FALSE]
    /\ ulog = <<>>
    /\ attrs = {}
    /\ web = "none"
    /\ monRunning = {}
    /\ uerr = NoError
    /\ spc = "idle"
    /\ sigAt = "none"
    /\ shutdownErr = "none"
    /\ slog = <<>>
    /\ exitStatus = {}

(***************************************************************************)
(*                           Specifications                                *)
(***************************************************************************)

InitAll == InitPointing /\ InitBroker /\ InitAdmin /\ InitUnit

NextPointing == PointingStep

SpecPointing == InitAll /\ [][NextPointing]_vars

NextBroker ==
    \/ start_broker
    \/ ClientSend
    \/ PeerAttach
    \/ HwReply

SpecBroker == InitAll /\ [][NextBroker]_vars

\* The relay loop is the only code running in its thread: whenever one of its
\* steps can be taken it is taken.  Nothing forces clients or hardware to act.
FairSpecBroker == SpecBroker /\ WF_vars(start_broker)

NextAdmin ==
    \/ on_open
    \/ on_close
    \/ TimerExpires
    \/ RunStopped
    \/ send_stats
    \/ FindOneReturns
    \/ send_mount_status
    \/ RecvRaises
    \/ RecvStatus
    \/ RecvCoords
    \/ RecvAltaz
    \/ HwToggle

SpecAdmin == InitAll /\ [][NextAdmin]_vars

NextUnit ==
    \/ Construct
    \/ MainThread
    \/ SigInt
    \/ WebExits

SpecUnit == InitAll /\ [][NextUnit]_vars

\* The main thread runs whenever it can; nothing forces the signal to arrive
\* or the admin process to end.
FairSpecUnit == SpecUnit /\ WF_vars(MainThread)

(***************************************************************************)
(*                               Claims                                    *)
(***************************************************************************)

\* The threshold the configuration asks for, in hundredths (0.05 by default).
ConfiguredThreshold ==
    IF inp.cfg = "mapping" /\ inp.threshold # {}
    THEN CHOOSE t \in inp.threshold : TRUE
    ELSE DefaultThreshold

\* C1: whenever a step of the sequence raised, on_enter returns with
\* next_state equal to the pre-set fallback 'parking'.
C1_FailureKeepsFallback ==
    (ppc = "returned" /\ caught # "none") => next_state = "parking"

\* C2: when take_exposure raised, no mount command was issued and on_enter
\* returns with next_state 'parking'.
C2_ExposureFailureParks ==
    (ppc = "returned" /\ caught = "take_exposure")
        => (mountCmds = <<>> /\ next_state = "parking")

FullCorrection ==
    << <<"set_target_coordinates", inp.pointing>>,
       <<"serial_query", "calibrate_mount">>,
       <<"set_target_coordinates", inp.field>>,
       <<"slew_to_target", "-">> >>

\* C3 (as stated): separation above the threshold and no failure imply that
\* the mount received set-target(solved), calibrate, set-target(field), slew
\* and next_state is 'tracking', whatever the first set-target call returned.
C3_AlwaysFullCorrection ==
    (ppc = "returned" /\ caught = "none"
        /\ inp.separation > ConfiguredThreshold)
        => (mountCmds = FullCorrection /\ next_state = "tracking")

\* C3 (amended): separation above the threshold and no failure imply
\* next_state 'tracking' and the mount received set-target(solved), calibrate,
\* followed by set-target(field), slew exactly when the first set-target call
\* returned a true value.
C3_CorrectionFollowsHasField ==
    (ppc = "returned" /\ caught = "none"
        /\ inp.separation > ConfiguredThreshold)
        => /\ next_state = "tracking"
           /\ mountCmds = IF inp.has_field THEN FullCorrection
                          ELSE SubSeq(FullCorrection, 1, 2)

C3_Witness ==
    /\ ppc = "returned" /\ caught = "none"
    /\ inp.separation > ConfiguredThreshold
    /\ inp.has_field
    /\ Len(mountCmds) = 4

\* C4: completion without an exception and separation at or below the
\* threshold imply no mount command and next_state 'tracking'.
C4_WithinThresholdTracks ==
    (ppc = "returned" /\ caught = "none"
        /\ inp.separation <= ConfiguredThreshold)
        => (mountCmds = <<>> /\ next_state = "tracking")

C4_Witness ==
    /\ ppc = "returned" /\ caught = "none"
    /\ inp.separation = ConfiguredThreshold
    /\ next_state = "tracking"

\* C5: no exception leaves on_enter, and on return next_state is 'parking' or
\* 'tracking'.
C5_NoExceptionEscapes ==
    /\ ppc # "escaped"
    /\ ppc = "returned" => next_state \in {"parking", "tracking"}

IsPrefix(s, t) == Len(s) <= Len(t) /\ SubSeq(t, 1, Len(s)) = s

\* C6: what is written to the hardware endpoint is what was read from the
\* client endpoint, in order and unmodified, at most the one message being
\* relayed behind; likewise from hardware to clients; and messages are read
\* in the order they arrived.
C6_RelayExact ==
    /\ toClient = fromHw
    /\ IF bpc = "send_backend"
         THEN fromClient = Append(toHw, message)
         ELSE toHw = fromClient
    /\ fromClient \o frontIn = sentHist
    /\ fromHw \o backIn = repliedHist

C6_Witness ==
    /\ Len(toHw) = MaxMsgs
    /\ Len(toClient) >= 2
    /\ toHw[1] # toHw[2]
    /\ toClient[1][1] # toClient[2][1]

\* C7: every client request that reached the frontend is eventually relayed
\* to the hardware endpoint, attached peer or not.
C7_EveryRequestRelayed ==
    \A n \in 1..MaxMsgs : (Len(sentHist) >= n) ~> (Len(toHw) >= n)

\* The table of the mount's status codes.
ExpectedStatus(code) ==
    CASE code = "0" -> "Stopped - Not at zero position"
      [] code = "1" -> "Tracking (PEC Disabled)"
      [] code = "2" -> "Slewing"
      [] code = "3" -> "Guiding"
      [] code = "4" -> "Meridian Flipping"
      [] code = "5" -> "Tracking"
      [] code = "6" -> "Parked"
      [] code = "7" -> "Home"
      [] OTHER -> "No response from mount"

\* C8: the published 'message' is the table entry of the status code for the
\* codes '0'..'7' and 'No response from mount' for any other code, and 'code'
\* is the second character of the mount's reply, unchanged.
C8_StatusCodeMapping ==
    (wpc = "idle" /\ lastTick["mount"] = "ok")
        => /\ lastMount.type = "mount_status"
           /\ lastMount.code = Chr(statusRaw[2])
           /\ lastMount.message = ExpectedStatus(lastMount.code)

C8_Witness ==
    /\ wpc = "idle" /\ lastTick["mount"] = "ok"
    /\ lastMount.code = "9"
    /\ lastMount.message = "No response from mount"

C8_WitnessTracking ==
    /\ wpc = "idle" /\ lastTick["mount"] = "ok"
    /\ lastMount.code = "5"
    /\ lastMount.message = "Tracking"

\* C9: a failed run leaves nothing behind that makes the next run fail: the
\* loop is still scheduled, between runs the request socket accepts a new
\* request, and no run is refused its first request.
C9_FailedTickIsIsolated ==
    /\ \A m \in Monitors :
          (lastTick[m] = "failed" /\ conn = "open") => loops[m] = "running"
    /\ wpc = "idle" => req = "ready"
    /\ mountErr # "EFSM"

\* C10: once on_close has completed, no further Message is produced.
C10_NoMessageAfterClose ==
    [][conn = "closed" => published' = published]_vars

C10_Witness ==
    /\ conn = "closed"
    /\ due["stats"] /\ due["mount"]
    /\ published["environment"] > 0

\* C11: on_close completes without error whenever it is invoked, also when the
\* monitors are already stopped or were never started.
C11_CloseIsRepeatable == closeErr = "none"

ThreeExchanges ==
    <<"send get_status", "recv", "send current_coords", "recv",
      "send get_coordinates_altaz", "recv">>

\* C18 (as stated): every mount-status tick performs the three exchanges
\* get_status, current_coords, get_coordinates_altaz and publishes exactly one
\* Message.
C18_EveryTickThreeExchanges ==
    (wpc = "idle" /\ lastTick["mount"] # "none")
        => (tickLog = ThreeExchanges /\ tickPub = 1)

\* C18 (amended): the socket operations of a tick are always a prefix of the
\* three alternating exchanges; a tick in which no call raises performs all
\* three and publishes exactly one 'mount_status' Message bundling the values
\* received in that tick; a tick in which a call raises publishes nothing.
C18_CompletedTickThreeExchanges ==
    /\ IsPrefix(tickLog, ThreeExchanges)
    /\ (wpc = "idle" /\ lastTick["mount"] = "ok")
          => /\ tickLog = ThreeExchanges
             /\ tickPub = 1
             /\ Len(tickReplies) = 3
             /\ lastMount.type = "mount_status"
             /\ lastMount.code = Chr(tickReplies[1][2])
             /\ lastMount.coords = decode(tickReplies[2])
             /\ lastMount.coords_altaz = decode(tickReplies[3])
    /\ (wpc = "idle" /\ lastTick["mount"] = "failed") => tickPub = 0

C18_Witness ==
    /\ wpc = "idle" /\ lastTick["mount"] = "ok"
    /\ tickLog = ThreeExchanges
    /\ tickPub = 1
    /\ published["mount_status"] = 2
    /\ Len(tickReplies[2]) # Len(tickReplies[3])

\* C19: while a mount-status tick waits for a reply from unreachable hardware,
\* a due run of the environment monitor can still execute.
C19_StatsRunsWhileMountWaits ==
    (due["stats"] /\ loops["stats"] = "running" /\ executing("mount") /\ ~hwUp)
        => ENABLED send_stats

\* C20: at every moment at most one run of each monitor is executing.
C20_AtMostOneTickInFlight == \A m \in Monitors : inFlight[m] <= 1

C20_Witness ==
    /\ inFlight["mount"] = 1
    /\ due["stats"]
    /\ lastTick["mount"] # "none"

\* C12: shutdown() does not raise when the signal arrives at any point of
\* __init__ before the unit is fully started.
C12_ShutdownSafeWhenPartial ==
    (sigAt \notin {"none", "relay"}) => spc # "raised"

\* C13: once the signal has reached a fully started unit, shutdown()
\* eventually completes and the process exits with status 0.
C13_SignalLeadsToExit ==
    (sigAt \in {"relay", "constructed"})
        ~> (spc = "exited" /\ exitStatus = {0})

LogSet == {ulog[k] : k \in 1..Len(ulog)}

FirstMissing(keys) ==
    IF "base_dir" \notin keys THEN "base_dir"
    ELSE IF "mount" \notin keys THEN "mount"
    ELSE "state_machine"

C15_TableFailureIsInvalidConfig ==
    (ucfg.table # "valid")
        => /\ "state_table" \notin attrs
           /\ (upc = "failed" /\ uerr.about = "state_table")
                 => uerr.type = "InvalidConfig"

StartupOrder ==
    <<"signal", "broker", "check_config", "db", "web_process", "messaging",
      "monitors", "observatory", "state_table", "state_machine", "start_jobs",
      "start_monitoring", "start_broker">>

Named(st) == st \in {StartupOrder[k] : k \in 1..Len(StartupOrder)}

C17_MonitorsStoppedBeforeJoin ==
    (spc \in {"join", "threads", "exit", "exited"}) => monRunning = {}

=============================================================================
